---- MODULE Spec2Model ----
(***************************************************************************)
(* Host Thread Scheduler of Vita3K (sce_kernel_thread::HostThreadScheduler).*)
(*                                                                         *)
(* The repository holds one build of the scheduler per platform.  The     *)
(* model follows the two four-tier builds (Disabled/Balanced/Aggressive/   *)
(* Ultra):                                                                 *)
(*   "linux"   : src/vita3k/kernel/src/host_thread_scheduler_linux.cpp,    *)
(*               lines 352-962                                             *)
(*   "windows" : src/unnamed/part_000                                      *)
(* The build is fixed for a whole behaviour (variable platform), as is the *)
(* number of logical cores the host reports (variable host_cores).         *)
(*                                                                         *)
(* Core lists are sequences (std::vector<int>), cpu sets are sets, and the *)
(* float affinity multiplier is held in tenths (1.0f is 10).               *)
(***************************************************************************)
EXTENDS Integers, Sequences, FiniteSets, TLC

(***************************************************************************)
(* Bounds of the model.                                                    *)
(***************************************************************************)
\* Largest number of logical cores a host reports.
MaxCores == 26

\* Largest number of outstanding timeBeginPeriod requests of one period
\* (windows build); a set_turbo_mode that would go past it is not taken.
MaxTimerRequests == 2

(***************************************************************************)
(* Program constants.                                                      *)
(***************************************************************************)
\* static float multiplier = 1.0f (linux build), also the sentinel that
\* set_turbo_mode(Ultra) compares against.
IdentityMultiplier == 10
\* static float affinity_multiplier = 2.0f (windows build).
WindowsDefaultMultiplier == 20
\* set_vita_affinity_multiplier(3.0f) in set_turbo_mode(Ultra).
UltraDefaultMultiplier == 30
\* if (total_cores <= 4): tiny systems share every core.
TinySystemCores == 4
\* else if (total_cores <= 8): small systems, light separation.
SmallSystemCores == 8

Platforms == {"linux", "windows"}

\* enum class ThreadRole
Roles == {"Unknown", "MainRender", "Audio", "Input", "Network", "Background"}

\* enum class TurboMode
Modes == {"Disabled", "Balanced", "Aggressive", "Ultra"}

\* Multipliers the operator passes to set_vita_affinity_multiplier, in tenths:
\* negative, zero, below identity, identity, fractional, the Ultra default,
\* and a very large one.
MultiplierInputs == {-10, 0, 5, 10, 25, 30, 1000}

\* The windows build reads p_core_count in its 24+ branch before any
\* declaration of it is in scope; the value is whatever the build supplies,
\* the same at every call.  The two candidates are the P-core count of that
\* branch and the literal of the neighbouring branch.
UndeclaredPCoreCount == {12, 16}

Min(a, b) == IF a < b THEN a ELSE b
Max(a, b) == IF a > b THEN a ELSE b

\* The vector lo, lo+1, ..., hi-1 built by a push_back loop
\* for (int i = lo; i < hi; ++i).
CoreRange(lo, hi) == [i \in 1..Max(0, hi - lo) |-> lo + i - 1]

\* The core ids held by a vector.
Elems(s) == {s[i] : i \in 1..Len(s)}

VARIABLES
    platform,           \* which build runs
    host_cores,         \* std::thread::hardware_concurrency()
    p_core_count,       \* what the windows build reads for the undeclared
                        \* p_core_count of its 24+ branch
    initialized,        \* lifecycle: initialize() ran and shutdown() has not since
    enabled,            \* get_enabled()
    turbo_mode,         \* get_turbo_mode_ref()
    total_cores,        \* get_total_cores()
    performance_cores,  \* get_performance_cores()
    efficiency_cores,   \* get_efficiency_cores()
    turbo_cores,        \* get_turbo_cores(): the spec's priority_cores
    ultra_cores,        \* get_ultra_cores()
    multiplier,         \* get_vita_affinity_multiplier_ref(), in tenths
    process_observed,   \* whether the behaviour follows the process-level OS
                        \* state below; no decision of the scheduler reads that
                        \* state, and where it is not followed it stays as it
                        \* started
    process_class,      \* the priority class the OS holds for the process
    timer_requests,     \* <<n1, n2>>: outstanding timeBeginPeriod(1) and
                        \* timeBeginPeriod(2) requests of the process
    operator_multiplier,\* <<v>> for the last value the operator set explicitly, <<>> if none
    thread_role,        \* the role the worker thread registers with
    affinity_applied,   \* thread_local bool affinity_applied (linux build)
    last_role,          \* thread_local ThreadRole last_role (linux build)
    pc,                 \* where the worker is inside a registration
    cpuset,             \* the cores the registration in flight selected
    turbo_local,        \* TurboMode turbo, the local of the windows build
    thread_affinity,    \* the worker's affinity mask as the OS holds it
    thread_priority,    \* the worker's scheduling policy and level as the OS holds it
    reg,                \* what the worker's call in progress or just returned did
                        \* (see NewCall); an operator call after the return clears it
    prev_affinity_call, \* the worker call before reg was a registration, found the
                        \* scheduler enabled and issued the affinity syscall
    thread_name,        \* the name last handed to classify_thread, one character
                        \* per element
    classified          \* the role each definition of classify_thread returned for it

topology == <<total_cores, performance_cores, efficiency_cores, turbo_cores, ultra_cores>>

sched == <<enabled, turbo_mode, multiplier>>

\* The name last classified and the answers.
classification == <<thread_name, classified>>

host == <<platform, host_cores, p_core_count, thread_role, process_observed,
          classification>>
\* The process as the OS holds it.
process == <<process_class, timer_requests>>

\* The worker as the program and the OS hold it.
thread == <<affinity_applied, last_role, pc, cpuset, turbo_local,
            thread_affinity, thread_priority>>

vars == <<platform, host_cores, p_core_count, process_observed, initialized, enabled, turbo_mode, total_cores,
          performance_cores, efficiency_cores, turbo_cores, ultra_cores,
          multiplier, process_class, timer_requests, operator_multiplier,
          thread_role, affinity_applied,
          last_role, pc, cpuset, turbo_local, thread_affinity, thread_priority,
          reg, prev_affinity_call, thread_name, classified>>

\* A scheduling request: policy and level.  NoPriority is "no call made".
NoPriority == [policy |-> "none", level |-> 0]

\* The scheduling a thread starts with.
DefaultPriority == [policy |-> "default", level |-> 0]

\* The record of a worker call that has just begun: the scheduler state it
\* found, and no platform call yet.
\*   affinity : "none" (no affinity syscall), "ok" or "failed"
\*   cores    : the core set handed to the affinity syscall
\*   priority : the scheduling request handed to the OS (NoPriority: none)
\*   priority_ok : the OS granted it
NewCall(kind) ==
    [kind |-> kind, enabled |-> enabled, initialized |-> initialized,
     mode |-> turbo_mode, skipped |-> FALSE, selected |-> FALSE,
     affinity |-> "none", cores |-> {},
     priority |-> NoPriority, priority_ok |-> FALSE]

\* No worker call to report.
NoCall ==
    [kind |-> "none", enabled |-> FALSE, initialized |-> FALSE,
     mode |-> "Disabled", skipped |-> FALSE, selected |-> FALSE,
     affinity |-> "none", cores |-> {},
     priority |-> NoPriority, priority_ok |-> FALSE]

\* An operator call leaves the worker alone; the report of a worker call that
\* has returned ends with it.
WorkerUntouched ==
    /\ UNCHANGED thread
    /\ reg' = IF pc = "idle" THEN NoCall ELSE reg
    /\ prev_affinity_call' = IF pc = "idle" THEN FALSE ELSE prev_affinity_call

(***************************************************************************)
(* detect_cores                                                            *)
(***************************************************************************)
\* A P-core count past the end of the host's cores, to show that the
\* partition of the core ids rests on the count detect_cores() computes.
PCoreCountPastTotal(total) == total + 1

\* linux build: number of P-cores for a given total.
LinuxPCoreCount(total) ==
    IF total = 24 THEN 16
    ELSE IF total >= 16 /\ total < 24 THEN total - 4
    ELSE IF total >= 12 THEN (total * 2) \div 3
    ELSE total

\* linux build: detect_cores().  turbo and ultra are filled inside the loop
\* over the P-cores, so they are prefixes of the P-core list.
LinuxDetectCores(total) ==
    LET p == LinuxPCoreCount(total)
        turboLimit == IF total = 24 THEN 6
                      ELSE IF total >= 16 /\ total < 24 THEN 6
                      ELSE IF total >= 12 THEN p \div 2
                      ELSE total \div 2
        ultraLimit == IF total = 24 THEN 12
                      ELSE IF total >= 16 /\ total < 24 THEN 10
                      ELSE p
    IN  [perf  |-> CoreRange(0, p),
         eff   |-> IF total >= 12 THEN CoreRange(p, total) ELSE <<>>,
         turbo |-> CoreRange(0, Min(turboLimit, p)),
         ultra |-> CoreRange(0, Min(ultraLimit, p))]

\* windows build: detect_cores().  undeclared is the value read for
\* p_core_count in the 24+ branch.
WindowsDetectCores(total, undeclared) ==
    IF total >= 24 THEN
        [perf  |-> CoreRange(0, 16),
         eff   |-> CoreRange(16, total),
         turbo |-> CoreRange(0, 8),
         ultra |-> CoreRange(0, Min(8, undeclared \div 2))]
    ELSE IF total >= 16 THEN
        [perf  |-> CoreRange(0, 12),
         eff   |-> CoreRange(12, total),
         turbo |-> CoreRange(0, 6),
         ultra |-> CoreRange(0, Min(8, 12 \div 2))]
    ELSE
        LET p == Max(4, (total * 2) \div 3)
        IN  [perf  |-> CoreRange(0, Min(p, total)),
             eff   |-> CoreRange(p, total),
             turbo |-> CoreRange(0, Min(4, p)),
             ultra |-> CoreRange(0, Min(6, p \div 2))]

(***************************************************************************)
(* Initial state: the function-local statics before any call.              *)
(***************************************************************************)
(***************************************************************************)
(* classify_thread: thread name to role.  A name is the sequence of its    *)
(* characters.                                                             *)
(***************************************************************************)
\* Longest name classified, in fragments of ThreadNameFragments.
MaxFragments == 2

\* The pieces names are put together from: keywords of every table in mixed
\* case, words that hold no keyword, and pieces that form a keyword only
\* across a joint ("s" + "nd.."; "SND" + "raw" holds "draw").
ThreadNameFragments ==
    {<<"A", "u", "d", "i", "o">>,
     <<"S", "N", "D">>,
     <<"p", "c", "m">>,
     <<"M", "u", "s", "i", "c">>,
     <<"R", "e", "n", "d", "e", "r">>,
     <<"G", "X", "M">>,
     <<"d", "r", "a", "w">>,
     <<"D", "i", "s", "p", "l", "a", "y">>,
     <<"I", "n", "p", "u", "t">>,
     <<"P", "a", "d">>,
     <<"c", "t", "r", "l">>,
     <<"N", "e", "t">>,
     <<"i", "o">>,
     <<"F", "i", "l", "e">>,
     <<"M", "i", "x", "e", "r">>,
     <<"T", "h", "r", "e", "a", "d">>,
     <<"w", "o", "r", "k", "e", "r", "_", "4", "2">>,
     <<"r", "a", "w">>,
     <<"s">>,
     <<"T", "a", "s", "k">>}

RECURSIVE NamesOf(_)
NamesOf(k) ==
    IF k = 0 THEN {<<>>}
    ELSE LET shorter == NamesOf(k - 1)
         IN  shorter \cup {n \o f : n \in shorter, f \in ThreadNameFragments}

\* The names handed to classify_thread.
ThreadNames == NamesOf(MaxFragments)

\* A character conversion that changes nothing, to show that the examples
\* of the classification depend on ::tolower.
KeepCase(c) == c

\* ::tolower in the "C" locale: the 26 capitals change, nothing else does.
UpperToLower ==
    "A" :> "a" @@ "B" :> "b" @@ "C" :> "c" @@ "D" :> "d" @@ "E" :> "e" @@ "F" :> "f"
    @@ "G" :> "g" @@ "H" :> "h" @@ "I" :> "i" @@ "J" :> "j" @@ "K" :> "k" @@ "L" :> "l"
    @@ "M" :> "m" @@ "N" :> "n" @@ "O" :> "o" @@ "P" :> "p" @@ "Q" :> "q" @@ "R" :> "r"
    @@ "S" :> "s" @@ "T" :> "t" @@ "U" :> "u" @@ "V" :> "v" @@ "W" :> "w" @@ "X" :> "x"
    @@ "Y" :> "y" @@ "Z" :> "z"

ToLower(c) == IF c \in DOMAIN UpperToLower THEN UpperToLower[c] ELSE c

\* std::transform(..., ::tolower) over the name.
LowerName(name) == [i \in 1..Len(name) |-> ToLower(name[i])]

\* lower_name.find(keyword) != std::string::npos
Find(lower_name, keyword) ==
    \E i \in 1..(Len(lower_name) - Len(keyword) + 1) :
        SubSeq(lower_name, i, i + Len(keyword) - 1) = keyword

\* One if-statement of classify_thread: some keyword of the table is found.
FindAny(lower_name, keywords) == \E k \in keywords : Find(lower_name, k)

\* The keyword tables of HostThreadScheduler::classify_thread, the same in
\* the header and in host_thread_scheduler_common.cpp.
AudioKeywords ==
    {<<"a", "u", "d", "i", "o">>,
     <<"s", "o", "u", "n", "d">>,
     <<"m", "u", "s", "i", "c">>,
     <<"a", "t", "r", "a", "c">>,
     <<"s", "n", "d">>,
     <<"p", "c", "m">>}

MainRenderKeywords ==
    {<<"r", "e", "n", "d", "e", "r">>,
     <<"g", "x", "m">>,
     <<"g", "r", "a", "p", "h", "i", "c", "s">>,
     <<"g", "p", "u">>,
     <<"o", "p", "e", "n", "g", "l">>,
     <<"v", "u", "l", "k", "a", "n">>,
     <<"d", "r", "a", "w">>,
     <<"d", "i", "s", "p", "l", "a", "y">>}

InputKeywords ==
    {<<"i", "n", "p", "u", "t">>,
     <<"c", "t", "r", "l">>,
     <<"p", "a", "d">>,
     <<"t", "o", "u", "c", "h">>,
     <<"c", "o", "n", "t", "r", "o", "l", "l", "e", "r">>,
     <<"b", "u", "t", "t", "o", "n">>}

NetworkKeywords ==
    {<<"n", "e", "t">>,
     <<"i", "o">>,
     <<"f", "i", "l", "e">>,
     <<"f", "i", "o", "s">>,
     <<"s", "o", "c", "k", "e", "t">>,
     <<"h", "t", "t", "p">>,
     <<"d", "o", "w", "n", "l", "o", "a", "d">>}

\* The keyword tables of SimpleLinuxScheduler::classify_thread.
SimpleMainRenderKeywords ==
    {<<"r", "e", "n", "d", "e", "r">>,
     <<"g", "x", "m">>,
     <<"g", "r", "a", "p", "h", "i", "c", "s">>,
     <<"g", "p", "u">>,
     <<"o", "p", "e", "n", "g", "l">>,
     <<"v", "u", "l", "k", "a", "n">>}

SimpleAudioKeywords ==
    {<<"a", "u", "d", "i", "o">>,
     <<"s", "o", "u", "n", "d">>,
     <<"m", "u", "s", "i", "c">>,
     <<"a", "t", "r", "a", "c">>}

SimpleInputKeywords ==
    {<<"i", "n", "p", "u", "t">>,
     <<"c", "t", "r", "l">>,
     <<"p", "a", "d">>,
     <<"t", "o", "u", "c", "h">>}

SimpleNetworkKeywords ==
    {<<"n", "e", "t">>,
     <<"i", "o">>,
     <<"f", "i", "l", "e">>,
     <<"f", "i", "o", "s">>}

\* HostThreadScheduler::classify_thread of the header, the definition
\* HOST_THREAD_REGISTER calls: Audio is tested first.
ClassifyThread(name) ==
    IF name = <<>> THEN "Unknown"
    ELSE LET lower_name == LowerName(name)
         IN  IF FindAny(lower_name, AudioKeywords) THEN "Audio"
             ELSE IF FindAny(lower_name, MainRenderKeywords) THEN "MainRender"
             ELSE IF FindAny(lower_name, InputKeywords) THEN "Input"
             ELSE IF FindAny(lower_name, NetworkKeywords) THEN "Network"
             ELSE "Background"

\* HostThreadScheduler::classify_thread of host_thread_scheduler_common.cpp:
\* MainRender is tested first.
ClassifyThreadCommon(name) ==
    IF name = <<>> THEN "Unknown"
    ELSE LET lower_name == LowerName(name)
         IN  IF FindAny(lower_name, MainRenderKeywords) THEN "MainRender"
             ELSE IF FindAny(lower_name, AudioKeywords) THEN "Audio"
             ELSE IF FindAny(lower_name, InputKeywords) THEN "Input"
             ELSE IF FindAny(lower_name, NetworkKeywords) THEN "Network"
             ELSE "Background"

\* SimpleLinuxScheduler::classify_thread: MainRender first, shorter tables.
ClassifyThreadSimple(name) ==
    IF name = <<>> THEN "Unknown"
    ELSE LET lower_name == LowerName(name)
         IN  IF FindAny(lower_name, SimpleMainRenderKeywords) THEN "MainRender"
             ELSE IF FindAny(lower_name, SimpleAudioKeywords) THEN "Audio"
             ELSE IF FindAny(lower_name, SimpleInputKeywords) THEN "Input"
             ELSE IF FindAny(lower_name, SimpleNetworkKeywords) THEN "Network"
             ELSE "Background"

\* No name has been classified.
NotClassified == [header |-> "none", common |-> "none", simple |-> "none"]

\* The scheduler, the process and the worker before any call.
InitScheduler ==
    /\ platform \in Platforms
    /\ host_cores \in 1..MaxCores
    /\ p_core_count \in IF platform = "windows" /\ host_cores >= 24
                         THEN UndeclaredPCoreCount ELSE {16}
    /\ initialized = FALSE
    /\ enabled = FALSE
    /\ turbo_mode = "Disabled"
    /\ total_cores = 0
    /\ performance_cores = <<>>
    /\ efficiency_cores = <<>>
    /\ turbo_cores = <<>>
    /\ ultra_cores = <<>>
    /\ multiplier = IF platform = "linux" THEN IdentityMultiplier
                                          ELSE WindowsDefaultMultiplier
    /\ process_observed \in BOOLEAN
    /\ process_class = "NORMAL_PRIORITY_CLASS"
    /\ timer_requests = <<0, 0>>
    /\ operator_multiplier = <<>>
    /\ thread_role \in Roles
    /\ affinity_applied = FALSE
    /\ last_role = "Unknown"
    /\ pc = "idle"
    /\ cpuset = {}
    /\ turbo_local = "Disabled"
    /\ thread_affinity = 0..(host_cores - 1)
    /\ thread_priority = DefaultPriority
    /\ reg = NoCall
    /\ prev_affinity_call = FALSE

\* A worker whose name plays no part.
Init ==
    /\ InitScheduler
    /\ thread_name = <<>>
    /\ classified = NotClassified

(***************************************************************************)
(* Operator surface: lifecycle and policy control.                         *)
(***************************************************************************)
\* The lists detect_cores() leaves for the running build.
DetectCores(total, undeclared) ==
    IF platform = "linux" THEN LinuxDetectCores(total)
                          ELSE WindowsDetectCores(total, undeclared)

\* The enabled flag initialize() leaves: the linux build ends with
\* get_enabled() = true, the windows build with get_enabled() = false.
InitializeEnabled == platform = "linux"

\* The turbo mode initialize() leaves: only the windows build assigns it.
InitializeMode == IF platform = "linux" THEN turbo_mode ELSE "Disabled"

\* initialize(): reads the core count, runs detect_cores(), sets the flags.
\* detect_hardware_capabilities() only logs.
Initialize ==
    LET d == DetectCores(host_cores, p_core_count)
    IN  /\ total_cores' = host_cores
        /\ performance_cores' = d.perf
        /\ efficiency_cores' = d.eff
        /\ turbo_cores' = d.turbo
        /\ ultra_cores' = d.ultra
        /\ enabled' = InitializeEnabled
        /\ turbo_mode' = InitializeMode
        /\ initialized' = TRUE
        /\ UNCHANGED <<host, multiplier, process, operator_multiplier>>
        /\ WorkerUntouched

\* The turbo mode shutdown() leaves: the linux build resets it only inside
\* if (get_enabled()), the windows build always.
ShutdownMode ==
    IF platform = "linux" /\ ~enabled THEN turbo_mode ELSE "Disabled"

\* timeBeginPeriod(period): one more outstanding request.
TimerBegin(timers, period) == [timers EXCEPT ![period] = @ + 1]

\* timeEndPeriod(period): clears one outstanding request; without one the
\* call fails and changes nothing.
TimerEnd(timers, period) ==
    IF timers[period] > 0 THEN [timers EXCEPT ![period] = @ - 1] ELSE timers

\* windows build, shutdown(): one timeEndPeriod for the current mode.
\* The linux build requests no timer.
ShutdownTimers ==
    IF platform = "linux" \/ ~process_observed THEN timer_requests
    ELSE IF turbo_mode \in {"Ultra", "Aggressive"} THEN TimerEnd(timer_requests, 1)
    ELSE IF turbo_mode = "Balanced" THEN TimerEnd(timer_requests, 2)
    ELSE timer_requests

\* windows build, shutdown(): SetPriorityClass(NORMAL_PRIORITY_CLASS).
ShutdownClass ==
    IF platform = "linux" \/ ~process_observed THEN process_class
    ELSE "NORMAL_PRIORITY_CLASS"

\* shutdown()
Shutdown ==
    /\ enabled' = FALSE
    /\ turbo_mode' = ShutdownMode
    /\ initialized' = FALSE
    /\ timer_requests' = ShutdownTimers
    /\ process_class' = ShutdownClass
    /\ UNCHANGED <<host, topology, multiplier, operator_multiplier>>
    /\ WorkerUntouched

\* An enable() that also drops the turbo mode when it disables, to show
\* that the frame of enable() rests on what enable() assigns.
EnableDroppingMode(b) ==
    /\ enabled' = b
    /\ turbo_mode' = IF b THEN turbo_mode ELSE "Disabled"
    /\ UNCHANGED <<host, initialized, topology, multiplier, process,
                   operator_multiplier>>
    /\ WorkerUntouched

\* enable(bool)
Enable(b) ==
    /\ enabled' = b
    /\ UNCHANGED <<host, initialized, turbo_mode, topology, multiplier,
                   process, operator_multiplier>>
    /\ WorkerUntouched

\* set_vita_affinity_multiplier(float): stores the argument as given.
StoredMultiplier(v) == v

SetVitaAffinityMultiplier(v) ==
    /\ multiplier' = StoredMultiplier(v)
    /\ operator_multiplier' = <<v>>
    /\ UNCHANGED <<host, initialized, enabled, turbo_mode, topology, process>>
    /\ WorkerUntouched

\* The multiplier set_turbo_mode(mode) leaves.  Only the linux build touches
\* it: entering Ultra with get_vita_affinity_multiplier() == 1.0f stores 3.0f.
TurboModeMultiplier(mode) ==
    IF platform = "linux" /\ mode = "Ultra" /\ multiplier = IdentityMultiplier
    THEN UltraDefaultMultiplier
    ELSE multiplier

\* windows build, set_turbo_mode: the cleanup of the previous mode runs
\* when that mode was not Disabled and the new one differs.
ModeCleanup(mode) ==
    platform = "windows" /\ turbo_mode # "Disabled" /\ mode # turbo_mode

\* windows build: the timer requests set_turbo_mode(mode) leaves, after the
\* cleanup (timeEndPeriod(1), timeEndPeriod(2)) and the timeBeginPeriod of
\* apply_process_optimizations().  The linux build requests no timer.
TurboModeTimers(mode) ==
    LET cleaned == IF ModeCleanup(mode)
                   THEN TimerEnd(TimerEnd(timer_requests, 1), 2)
                   ELSE timer_requests
    IN  IF platform = "linux" \/ ~process_observed THEN timer_requests
        ELSE IF mode \in {"Ultra", "Aggressive"} THEN TimerBegin(cleaned, 1)
        ELSE IF mode = "Balanced" THEN TimerBegin(cleaned, 2)
        ELSE cleaned

\* windows build: the priority classes set_turbo_mode(mode) can leave.  Ultra
\* asks for REALTIME_PRIORITY_CLASS and gets HIGH_PRIORITY_CLASS where
\* realtime is denied.  apply_process_optimizations() of the linux build
\* only logs.
TurboModeClasses(mode) ==
    IF platform = "linux" \/ ~process_observed THEN {process_class}
    ELSE IF mode = "Ultra" THEN {"REALTIME_PRIORITY_CLASS", "HIGH_PRIORITY_CLASS"}
    ELSE IF mode = "Aggressive" THEN {"HIGH_PRIORITY_CLASS"}
    ELSE IF mode = "Balanced" THEN {"ABOVE_NORMAL_PRIORITY_CLASS"}
    ELSE IF ModeCleanup(mode) THEN {"NORMAL_PRIORITY_CLASS"}
    ELSE {process_class}

\* set_turbo_mode(TurboMode)
SetTurboMode(mode) ==
    /\ TurboModeTimers(mode)[1] <= MaxTimerRequests
    /\ TurboModeTimers(mode)[2] <= MaxTimerRequests
    /\ turbo_mode' = mode
    /\ multiplier' = TurboModeMultiplier(mode)
    /\ timer_requests' = TurboModeTimers(mode)
    /\ process_class' \in TurboModeClasses(mode)
    /\ UNCHANGED <<host, initialized, enabled, topology, operator_multiplier>>
    /\ WorkerUntouched

(***************************************************************************)
(* Worker surface: apply_affinity_hint_current_thread(role), reached       *)
(* through HOST_THREAD_REGISTER / HOST_THREAD_REGISTER_ROLE.               *)
(*                                                                         *)
(* A registration runs in three steps, between which other threads run:    *)
(*   RegisterBegin    the enabled check, the per-thread marker, the core   *)
(*                    selection (with its read of the turbo mode)          *)
(*   RegisterAffinity the affinity syscall and the marker update           *)
(*   RegisterPriority apply_platform_priority(role, turbo)                 *)
(***************************************************************************)
\* 0, 1, ..., n-1: what for (int i = 0; i < n; i++) CPU_SET(i) sets.
FirstCores(n) == 0..(n - 1)

\* linux build: the cpu set the branches on total_cores and role fill, for
\* the mode read at the MainRender branch.  The last branch of each role is
\* the cores_assigned == false fallback.
LinuxCpuset(role, turbo) ==
    LET perf  == Elems(performance_cores)
        eff   == Elems(efficiency_cores)
        tcores == Elems(turbo_cores)
        all   == FirstCores(total_cores)
    IN  IF total_cores <= TinySystemCores THEN all
        ELSE IF total_cores <= SmallSystemCores THEN
            IF role \in {"MainRender", "Audio"}
            THEN FirstCores((total_cores * 2) \div 3 + 1)
            ELSE all
        ELSE IF role = "MainRender" THEN
            IF tcores # {} /\ turbo # "Disabled" THEN tcores
            ELSE IF perf # {} THEN perf
            ELSE all
        ELSE IF role = "Audio" THEN
            IF tcores # {} THEN tcores
            ELSE IF perf # {} THEN perf
            ELSE all
        ELSE IF role \in {"Input", "Network"} THEN
            IF perf # {} THEN perf ELSE all
        ELSE
            IF eff # {} THEN eff
            ELSE IF perf # {} THEN perf
            ELSE all

\* windows build: the vector target_cores points at, for the mode read once
\* into the local turbo.
WindowsTargetCores(role, turbo) ==
    IF turbo = "Ultra" THEN
        IF role \in {"MainRender", "Audio"} THEN ultra_cores
        ELSE IF role = "Input" THEN turbo_cores
        ELSE IF role = "Network" THEN performance_cores
        ELSE efficiency_cores
    ELSE
        IF role = "MainRender" THEN
            IF turbo # "Disabled" THEN turbo_cores ELSE performance_cores
        ELSE IF role = "Audio" THEN turbo_cores
        ELSE IF role \in {"Input", "Network"} THEN performance_cores
        ELSE efficiency_cores

\* windows build, apply_platform_affinity: the bits of the affinity mask.
WindowsAffinityMask(cores) == {c \in Elems(cores) : c >= 0 /\ c < 64}

\* The core set a registration with this role selects when it reads this
\* mode.
SelectCores(role, turbo) ==
    IF platform = "linux" THEN LinuxCpuset(role, turbo)
    ELSE WindowsAffinityMask(WindowsTargetCores(role, turbo))

\* What the affinity syscall can answer for a core set.  It can always fail
\* (no privilege).  pthread_setaffinity_np succeeds only if the set holds a
\* core of the host; SetThreadAffinityMask only if every bit is one.
AffinityOutcomes(cores) ==
    LET existing == 0..(host_cores - 1)
        can == IF platform = "linux" THEN cores \cap existing # {}
               ELSE cores # {} /\ cores \subseteq existing
    IN  {"failed"} \cup (IF can THEN {"ok"} ELSE {})

\* A linux apply_platform_priority without the early return on Disabled, to
\* show that the silence under Disabled rests on that return.
LinuxPriorityIgnoringDisabled(role, turbo) ==
    IF role = "Audio" THEN
        [policy |-> "SCHED_FIFO", level |-> IF turbo = "Aggressive" THEN 10 ELSE 5]
    ELSE IF role = "MainRender" /\ turbo = "Aggressive" THEN
        [policy |-> "SCHED_OTHER", level |-> 0]
    ELSE IF role = "Input" /\ turbo = "Aggressive" THEN
        [policy |-> "SCHED_FIFO", level |-> 3]
    ELSE NoPriority

\* linux build, apply_platform_priority: the pthread_setschedparam request.
LinuxPriority(role, turbo) ==
    IF turbo = "Disabled" THEN NoPriority
    ELSE IF role = "Audio" THEN
        [policy |-> "SCHED_FIFO", level |-> IF turbo = "Aggressive" THEN 10 ELSE 5]
    ELSE IF role = "MainRender" /\ turbo = "Aggressive" THEN
        [policy |-> "SCHED_OTHER", level |-> 0]
    ELSE IF role = "Input" /\ turbo = "Aggressive" THEN
        [policy |-> "SCHED_FIFO", level |-> 3]
    ELSE NoPriority

\* windows build, apply_platform_priority: the THREAD_PRIORITY_* value
\* (TIME_CRITICAL 15, HIGHEST 2, ABOVE_NORMAL 1, NORMAL 0, BELOW_NORMAL -1).
WindowsPriorityLevel(role, turbo) ==
    IF turbo = "Ultra" THEN
        IF role = "Audio" THEN 15
        ELSE IF role = "MainRender" THEN 2
        ELSE IF role = "Input" THEN 1
        ELSE IF role = "Background" THEN -1
        ELSE 0
    ELSE IF turbo = "Aggressive" THEN
        IF role = "Audio" THEN 15
        ELSE IF role = "MainRender" THEN 2
        ELSE IF role = "Input" THEN 1
        ELSE 0
    ELSE IF turbo = "Balanced" THEN
        IF role = "Audio" THEN 2
        ELSE IF role = "MainRender" THEN 1
        ELSE 0
    ELSE 0

\* windows build: SetThreadPriority is called only for a value other than
\* THREAD_PRIORITY_NORMAL.
WindowsPriority(role, turbo) ==
    IF WindowsPriorityLevel(role, turbo) # 0
    THEN [policy |-> "THREAD_PRIORITY", level |-> WindowsPriorityLevel(role, turbo)]
    ELSE NoPriority

\* The scheduling request of a role under a mode.
SelectPriority(role, turbo) ==
    IF platform = "linux" THEN LinuxPriority(role, turbo)
                          ELSE WindowsPriority(role, turbo)

\* A worker call without the enabled check, to show that the silence of a
\* disabled scheduler rests on that check.
NoDisabledReturn == FALSE

\* if (!get_enabled()) return;
DisabledReturn == ~enabled

\* linux build: if (affinity_applied && last_role == role) return;
\* The windows build keeps no marker.
MarkerReturn(role) ==
    platform = "linux" /\ affinity_applied /\ last_role = role

\* windows build: nothing is applied when target_cores is empty.
EmptyTargetReturn(role) ==
    platform = "windows" /\ WindowsTargetCores(role, turbo_mode) = <<>>

RegisterBegin ==
    /\ pc = "idle"
    /\ prev_affinity_call' =
           (reg.kind = "register" /\ reg.enabled /\ reg.affinity # "none")
    /\ IF DisabledReturn THEN
           /\ reg' = NewCall("register")
           /\ UNCHANGED <<pc, cpuset, turbo_local>>
       ELSE IF MarkerReturn(thread_role) THEN
           /\ reg' = [NewCall("register") EXCEPT !.skipped = TRUE]
           /\ UNCHANGED <<pc, cpuset, turbo_local>>
       ELSE IF EmptyTargetReturn(thread_role) THEN
           /\ reg' = [NewCall("register") EXCEPT !.selected = TRUE]
           /\ UNCHANGED <<pc, cpuset, turbo_local>>
       ELSE
           /\ reg' = [NewCall("register") EXCEPT
                         !.selected = TRUE,
                         !.cores = SelectCores(thread_role, turbo_mode)]
           /\ cpuset' = SelectCores(thread_role, turbo_mode)
           /\ turbo_local' = turbo_mode
           /\ pc' = "affinity"
    /\ UNCHANGED <<host, initialized, sched, topology, process,
                   operator_multiplier,
                   affinity_applied, last_role, thread_affinity, thread_priority>>

\* The marker after the affinity syscall: the linux build sets it only on
\* result == 0.
MarkerAfter(outcome) ==
    IF platform = "linux" /\ outcome = "ok"
    THEN <<TRUE, thread_role>>
    ELSE <<affinity_applied, last_role>>

\* An affinity syscall that takes effect also when it reports failure, to
\* show that a failed call must leave the thread's affinity alone.
AffinityAfterIgnoringOutcome(cores, outcome) == cores \cap (0..(host_cores - 1))

\* The affinity the OS holds after the syscall.
AffinityAfter(cores, outcome) ==
    IF outcome = "ok" THEN cores \cap (0..(host_cores - 1)) ELSE thread_affinity

\* pthread_setaffinity_np / apply_platform_affinity.  The windows build skips
\* the call when the mask is zero.
RegisterAffinity ==
    /\ pc = "affinity"
    /\ IF platform = "windows" /\ cpuset = {} THEN
           UNCHANGED <<reg, affinity_applied, last_role, thread_affinity>>
       ELSE
           \E outcome \in AffinityOutcomes(cpuset) :
               /\ reg' = [reg EXCEPT !.affinity = outcome]
               /\ affinity_applied' = MarkerAfter(outcome)[1]
               /\ last_role' = MarkerAfter(outcome)[2]
               /\ thread_affinity' = AffinityAfter(cpuset, outcome)
    /\ pc' = "priority"
    /\ UNCHANGED <<host, initialized, sched, topology, process,
                   operator_multiplier,
                   cpuset, turbo_local, thread_priority, prev_affinity_call>>

\* The mode apply_platform_priority is called with: the linux build reads
\* get_turbo_mode_ref() again, the windows build passes its local.
PriorityMode == IF platform = "linux" THEN turbo_mode ELSE turbo_local

\* The scheduling the OS holds after a request.
PriorityAfter(request, granted) ==
    IF granted THEN request ELSE thread_priority

RegisterPriority ==
    /\ pc = "priority"
    /\ LET request == SelectPriority(thread_role, PriorityMode)
       IN  IF request = NoPriority THEN
               UNCHANGED <<reg, thread_priority>>
           ELSE
               \E granted \in BOOLEAN :
                   /\ reg' = [reg EXCEPT !.priority = request,
                                         !.priority_ok = granted]
                   /\ thread_priority' = PriorityAfter(request, granted)
    /\ pc' = "idle"
    /\ cpuset' = {}
    /\ turbo_local' = "Disabled"
    /\ UNCHANGED <<host, initialized, sched, topology, process,
                   operator_multiplier,
                   affinity_applied, last_role, thread_affinity,
                   prev_affinity_call>>

\* One step of a registration.
Register ==
    \/ RegisterBegin
    \/ RegisterAffinity
    \/ RegisterPriority

(***************************************************************************)
(* Worker surface: apply_vita_thread_optimization(name, vita_priority,     *)
(* vita_affinity), the Ultra-mode expansion of an emulated affinity mask.  *)
(***************************************************************************)
\* Emulated priorities and affinity masks the worker passes.
VitaPriorities == {64, 128, 191}

VitaAffinityMasks == {0, 1, 15}

\* __builtin_popcount of a non-negative mask.
RECURSIVE PopCount(_)
PopCount(mask) ==
    IF mask = 0 THEN 0 ELSE (mask % 2) + PopCount(mask \div 2)

\* static_cast<int>(count * multiplier): the product truncated toward zero.
\* The multiplier is in tenths; every value of the model is exact as a float.
ScaledCount(count, tenths) ==
    IF count * tenths >= 0 THEN (count * tenths) \div 10
                           ELSE -((-(count * tenths)) \div 10)

\* The first n entries of a vector, as a set.
Prefix(cores, n) == {cores[i] : i \in 1..Min(Max(n, 0), Len(cores))}

\* linux build: target_cores.  A mask with no bit set counts as one core.
LinuxVitaCores(mask) ==
    IF mask = 0 THEN Elems(ultra_cores)
    ELSE LET count  == IF PopCount(mask) = 0 THEN 1 ELSE PopCount(mask)
             target == Max(1, Min(ScaledCount(count, multiplier), Len(ultra_cores)))
         IN  Prefix(ultra_cores, target)

\* linux build: the SCHED_FIFO request for a Vita priority; rt_priority 1
\* means no call.
LinuxVitaPriority(vita_priority) ==
    LET rt == IF vita_priority <= 80 THEN 20
              ELSE IF vita_priority <= 100 THEN 15
              ELSE IF vita_priority <= 128 THEN 10
              ELSE IF vita_priority <= 160 THEN 5
              ELSE 1
    IN  IF rt > 1 THEN [policy |-> "SCHED_FIFO", level |-> rt] ELSE NoPriority

\* windows build: the THREAD_PRIORITY_* value for a Vita priority
\* (LOWEST is -2); SetThreadPriority is called with it in every case.
WindowsVitaPriority(vita_priority) ==
    [policy |-> "THREAD_PRIORITY",
     level  |-> IF vita_priority >= 160 THEN 15
                ELSE IF vita_priority >= 140 THEN 2
                ELSE IF vita_priority >= 120 THEN 1
                ELSE IF vita_priority >= 80 THEN 0
                ELSE IF vita_priority >= 40 THEN -1
                ELSE -2]

\* The n smallest members of a set of core ids.
Smallest(S, n) == {c \in S : Cardinality({d \in S : d < c}) < n}

\* windows build: expanded_cores.  4 * multiplier cores, at most total_cores:
\* the best ultra cores first, then the lowest core ids not yet taken.
WindowsVitaCores ==
    LET target == Min(ScaledCount(4, multiplier), total_cores)
        best   == Prefix(ultra_cores, target)
        rest   == FirstCores(total_cores) \ best
    IN  best \cup Smallest(rest, target - Cardinality(best))

\* Whether the call goes past its guards to the affinity part.
\* linux build: returns when there is no ultra core.
\* windows build: expands only if there is one and multiplier > 1.0f.
VitaExpands ==
    IF platform = "linux" THEN ultra_cores # <<>>
    ELSE ultra_cores # <<>> /\ multiplier > IdentityMultiplier

\* The core set handed to the affinity syscall.
VitaCores(mask) ==
    IF platform = "linux" THEN LinuxVitaCores(mask)
    ELSE {c \in WindowsVitaCores : c >= 0 /\ c < 64}

\* The scheduling request.
VitaPriority(vita_priority) ==
    IF platform = "linux" THEN LinuxVitaPriority(vita_priority)
                          ELSE WindowsVitaPriority(vita_priority)

\* if (!get_enabled()) return; if (turbo != TurboMode::Ultra) return;
VitaReturn == DisabledReturn \/ turbo_mode # "Ultra"

\* The outcomes the OS can give the affinity part of the call; "none" when
\* no affinity syscall is made.
VitaAffinityOutcomes(cores) ==
    IF VitaExpands /\ cores # {} THEN AffinityOutcomes(cores) ELSE {"none"}

\* The priority request.  The linux build returns before it when there is no
\* ultra core.
VitaRequest(vita_priority) ==
    IF platform = "linux" /\ ~VitaExpands THEN NoPriority
    ELSE VitaPriority(vita_priority)

ApplyVitaThreadOptimization(vita_priority, mask) ==
    /\ pc = "idle"
    /\ prev_affinity_call' = FALSE
    /\ IF VitaReturn THEN
           /\ reg' = NewCall("vita")
           /\ UNCHANGED <<thread_affinity, thread_priority>>
       ELSE
           LET cores   == VitaCores(mask)
               request == VitaRequest(vita_priority)
           IN  \E outcome \in VitaAffinityOutcomes(cores),
                  granted \in IF request = NoPriority THEN {FALSE} ELSE BOOLEAN :
                   /\ thread_affinity' =
                          IF outcome = "none" THEN thread_affinity
                          ELSE AffinityAfter(cores, outcome)
                   /\ thread_priority' =
                          IF request = NoPriority THEN thread_priority
                          ELSE PriorityAfter(request, granted)
                   /\ reg' = [NewCall("vita") EXCEPT
                                 !.selected = VitaExpands,
                                 !.affinity = outcome,
                                 !.cores = IF outcome = "none" THEN {} ELSE cores,
                                 !.priority = request,
                                 !.priority_ok = granted]
    /\ UNCHANGED <<host, initialized, sched, topology, process,
                   operator_multiplier,
                   affinity_applied, last_role, pc, cpuset, turbo_local>>

\* A call of the worker with its arguments.  A call that returns at its
\* guards reads neither argument, so one pair stands for all of them.
VitaCall ==
    \E vp \in IF VitaReturn THEN {128} ELSE VitaPriorities,
       mask \in IF VitaReturn THEN {0} ELSE VitaAffinityMasks :
        ApplyVitaThreadOptimization(vp, mask)

\* The operator-facing calls.
OperatorCall ==
    \/ Initialize
    \/ Shutdown
    \/ \E b \in BOOLEAN : Enable(b)
    \/ \E m \in Modes : SetTurboMode(m)

\* The operator surface alone, multiplier included, with the process-level
\* OS state followed; no worker registers.
LifecycleNext ==
    \/ OperatorCall
    \/ \E v \in MultiplierInputs : SetVitaAffinityMultiplier(v)

InitLifecycle == Init /\ process_observed /\ thread_role = "Unknown"

SpecLifecycle == InitLifecycle /\ [][LifecycleNext]_vars

\* One host of each class of core counts that detect_cores() and the core
\* selection of either build tell apart: 1, 2-3, 4, 5-8, 9-11, 12-15, 16-23,
\* 24, 25 and more.
RegisteringHosts == {1, 2, 4, 5, 9, 12, 16, 24, 25}

InitRegistering ==
    Init /\ host_cores \in RegisteringHosts /\ ~process_observed

\* The worker registers and optimizes; the operator calls only between two
\* worker calls.
Next ==
    \/ pc = "idle" /\ OperatorCall
    \/ Register
    \/ VitaCall

Spec == InitRegistering /\ [][Next]_vars

\* Registrations racing the operator: every operator call may fall between
\* two steps of a registration.
RaceNext ==
    \/ OperatorCall
    \/ Register

SpecRace == InitRegistering /\ [][RaceNext]_vars

\* classify_thread(name) on the worker's name, as each definition in the
\* repository answers it.  The function is static and reads no scheduler
\* state.
ClassifyCall ==
    /\ classified' = [header |-> ClassifyThread(thread_name),
                      common |-> ClassifyThreadCommon(thread_name),
                      simple |-> ClassifyThreadSimple(thread_name)]
    /\ UNCHANGED <<platform, host_cores, p_core_count, thread_role, process_observed,
                   initialized, sched, topology, process, operator_multiplier,
                   thread, reg, prev_affinity_call, thread_name>>

ClassifyNext == ClassifyCall

\* The worker carries any of the names.
InitClassify ==
    /\ InitScheduler
    /\ platform = "linux"
    /\ host_cores = SmallSystemCores
    /\ ~process_observed
    /\ thread_role = "Unknown"
    /\ thread_name \in ThreadNames
    /\ classified = NotClassified

\* Each name classified on a scheduler nobody else touches.
SpecClassify == InitClassify /\ [][ClassifyNext]_vars

(***************************************************************************)
(* Properties.                                                             *)
(***************************************************************************)

\* C1: after detect_cores(), for every total_cores >= 1, the performance and
\* efficiency lists share no core id and together hold exactly the core ids
\* 0 .. total_cores-1.
PerfEffPartition ==
    initialized =>
        /\ Elems(performance_cores) \cap Elems(efficiency_cores) = {}
        /\ Elems(performance_cores) \cup Elems(efficiency_cores)
               = FirstCores(total_cores)

\* C1 happens: a detected hybrid topology, with both lists non-empty.
PerfEffPartitionWitness ==
    /\ initialized
    /\ performance_cores # <<>>
    /\ efficiency_cores # <<>>
    /\ total_cores = host_cores

\* C2: after detect_cores(), every member of turbo_cores (the priority
\* cores) and every member of ultra_cores is a member of performance_cores.
PriorityAndUltraWithinPerformance ==
    initialized =>
        /\ Elems(turbo_cores) \subseteq Elems(performance_cores)
        /\ Elems(ultra_cores) \subseteq Elems(performance_cores)

\* C3: a registration that finds the scheduler initialized and enabled and
\* reaches the core selection selects at least one core, for every role and
\* mode.
SelectedCoreSetNonEmpty ==
    (reg.kind = "register" /\ reg.enabled /\ reg.initialized /\ reg.selected)
        => reg.cores # {}

\* C4: a worker call (a registration or apply_vita_thread_optimization) that
\* finds the scheduler disabled returns at once: it issues no affinity call
\* and no priority call, whatever the role and the mode.
DisabledIssuesNoPlatformCall ==
    (reg.kind \in {"register", "vita"} /\ ~reg.enabled) =>
        /\ pc = "idle"
        /\ reg.affinity = "none"
        /\ reg.priority = NoPriority

\* C4 happens: an Audio thread registers with an initialized, disabled
\* scheduler in Aggressive mode, where an enabled one would make both calls.
DisabledIssuesNoPlatformCallWitness ==
    /\ reg.kind = "register"
    /\ ~reg.enabled
    /\ reg.initialized
    /\ reg.mode = "Aggressive"
    /\ thread_role = "Audio"
    /\ SelectPriority(thread_role, reg.mode) # NoPriority
    /\ SelectCores(thread_role, reg.mode) # {}

\* C5: of two consecutive registrations of one thread with the same role,
\* both finding the scheduler initialized and enabled, at most one issues
\* the affinity syscall, whether the first one's syscall succeeded or failed.
SecondRegistrationIssuesNoAffinityCall ==
    ~(/\ prev_affinity_call
      /\ reg.kind = "register"
      /\ reg.initialized
      /\ reg.affinity # "none")

\* C6: once the operator has called set_vita_affinity_multiplier(v), the
\* multiplier stays v through every later set_turbo_mode, Ultra included.
OperatorMultiplierPreserved ==
    operator_multiplier # <<>> => multiplier = operator_multiplier[1]

\* C7: a registration that ran with an initialized scheduler while operator
\* calls interleaved has applied the core set and the priority request of
\* one and the same mode.
AffinityAndPriorityOfOneMode ==
    (pc = "idle" /\ reg.kind = "register" /\ reg.initialized
                 /\ reg.affinity # "none") =>
        \E m \in Modes :
            /\ reg.cores = SelectCores(thread_role, m)
            /\ reg.priority = SelectPriority(thread_role, m)

\* C8: a registration that starts, with the scheduler initialized and
\* enabled, while the thread's affinity is not the one the current mode
\* selects for its role goes on to the affinity call, also when the thread
\* had registered with that role before.
RegistrationAppliesCurrentMode ==
    [][(/\ RegisterBegin
        /\ enabled
        /\ initialized
        /\ SelectCores(thread_role, turbo_mode) # {}
        /\ thread_affinity
               # SelectCores(thread_role, turbo_mode) \cap FirstCores(host_cores))
       => pc' = "affinity"]_vars

\* C9: initialize() called on an uninitialized scheduler returns with the
\* scheduler disabled and the mode Disabled.
InitializeLeavesDisabled ==
    [][(~initialized /\ Initialize)
       => (~enabled' /\ turbo_mode' = "Disabled")]_vars

\* C10: initialize() called on an initialized scheduler changes neither the
\* enabled flag, the mode, the multiplier nor the detected topology.
RepeatedInitializeIsNoOp ==
    [][(initialized /\ Initialize) => UNCHANGED <<sched, topology>>]_vars

\* C11: shutdown() returns, from every reachable state, with the scheduler
\* disabled and the mode Disabled.
ShutdownLeavesDisabled ==
    [][Shutdown => (~enabled' /\ turbo_mode' = "Disabled")]_vars

\* C12: on the windows build, after set_turbo_mode calls and a shutdown(),
\* no timeBeginPeriod request of period 1 or 2 is outstanding and the
\* process is back in NORMAL_PRIORITY_CLASS.
ShutdownReleasesProcess ==
    [][(platform = "windows" /\ ~initialized /\ Shutdown)
       => (/\ timer_requests' = <<0, 0>>
           /\ process_class' = "NORMAL_PRIORITY_CLASS")]_vars

\* C13: enable(b) changes the enabled flag only: the mode, the multiplier,
\* the topology, the affinity and priority the worker thread holds and the
\* process-level OS state are as before, for b true and b false.
EnableChangesOnlyEnabled ==
    [][(\E b \in BOOLEAN : Enable(b))
       => UNCHANGED <<turbo_mode, multiplier, topology, thread_affinity,
                      thread_priority, affinity_applied, last_role,
                      process>>]_vars

\* C13 happens: on the linux build a thread holds an affinity and a
\* priority from a registration, and the scheduler, still initialized and in
\* a mode other than Disabled, has been disabled by enable(false).
EnableChangesOnlyEnabledWitness ==
    /\ platform = "linux"
    /\ initialized
    /\ ~enabled
    /\ turbo_mode # "Disabled"
    /\ affinity_applied
    /\ thread_priority # DefaultPriority

\* C14: while initialize() has never run (total_cores is still 0), a
\* registration issues no affinity call and no priority call, whatever
\* enable and set_turbo_mode calls came before.
UninitializedIssuesNoPlatformCall ==
    (total_cores = 0 /\ reg.kind = "register") =>
        /\ reg.affinity = "none"
        /\ reg.priority = NoPriority

\* C15: on a host of 1 to 4 cores a registration that selects any core
\* selects every core, 0 .. total_cores-1, for every role and mode.
TinyHostSelectsAllCores ==
    (/\ reg.kind = "register"
     /\ reg.initialized
     /\ reg.selected
     /\ reg.cores # {}
     /\ total_cores >= 1
     /\ total_cores <= TinySystemCores)
        => reg.cores = FirstCores(total_cores)

\* C16: classify_thread answers every name with one role: Unknown for the
\* empty name, Background for a non-empty name that holds no keyword of the
\* table, Audio (MainRender) for a name whose keywords are all Audio
\* (MainRender) keywords; "AudioMixer" is Audio, "RenderThread" is
\* MainRender, "worker_42" is Background.  Stated of the definition of the
\* header and of the one of host_thread_scheduler_common.cpp.
ClassifyThreadTotalAndAsTabled ==
    LET lower_name == LowerName(thread_name)
        audio  == FindAny(lower_name, AudioKeywords)
        render == FindAny(lower_name, MainRenderKeywords)
        input  == FindAny(lower_name, InputKeywords)
        net    == FindAny(lower_name, NetworkKeywords)
    IN  classified # NotClassified =>
        \A role \in {classified.header, classified.common} :
            /\ role \in Roles
            /\ thread_name = <<>> => role = "Unknown"
            /\ (thread_name # <<>> /\ ~audio /\ ~render /\ ~input /\ ~net)
                   => role = "Background"
            /\ (audio /\ ~render /\ ~input /\ ~net) => role = "Audio"
            /\ (render /\ ~audio /\ ~input /\ ~net) => role = "MainRender"
            /\ thread_name = <<"A", "u", "d", "i", "o", "M", "i", "x", "e", "r">>
                   => role = "Audio"
            /\ thread_name = <<"R", "e", "n", "d", "e", "r", "T", "h", "r", "e", "a", "d">>
                   => role = "MainRender"
            /\ thread_name = <<"w", "o", "r", "k", "e", "r", "_", "4", "2">>
                   => role = "Background"

\* "AudioMixer" has been classified, and both definitions said Audio.
ClassifyThreadTotalAndAsTabledWitness ==
    /\ thread_name = <<"A", "u", "d", "i", "o", "M", "i", "x", "e", "r">>
    /\ classified.header = "Audio"
    /\ classified.common = "Audio"

\* C17: a name holding keywords of several roles is classified as the
\* earliest of them in the order Audio, MainRender, Input, Network, and
\* every definition of classify_thread returns the same role for it.
ClassifyThreadOrderAndAgreement ==
    LET lower_name == LowerName(thread_name)
        earliest ==
            IF FindAny(lower_name, AudioKeywords) THEN "Audio"
            ELSE IF FindAny(lower_name, MainRenderKeywords) THEN "MainRender"
            ELSE IF FindAny(lower_name, InputKeywords) THEN "Input"
            ELSE IF FindAny(lower_name, NetworkKeywords) THEN "Network"
            ELSE classified.header
    IN  classified # NotClassified =>
            /\ classified.header = earliest
            /\ classified.common = classified.header
            /\ classified.simple = classified.header

\* C18: above 4 cores a MainRender registration selects ultra_cores under
\* Ultra, turbo_cores under Aggressive and Balanced, and performance_cores
\* under Disabled.
MainRenderSelectsByMode ==
    (/\ reg.kind = "register"
     /\ reg.initialized
     /\ reg.selected
     /\ thread_role = "MainRender"
     /\ total_cores > TinySystemCores)
        => reg.cores =
               Elems(IF reg.mode = "Ultra" THEN ultra_cores
                     ELSE IF reg.mode \in {"Aggressive", "Balanced"}
                          THEN turbo_cores
                     ELSE performance_cores)

\* C19: above 4 cores an Audio registration selects turbo_cores under every
\* mode, and performance_cores only when turbo_cores is empty.
AudioSelectsTurboCores ==
    (/\ reg.kind = "register"
     /\ reg.initialized
     /\ reg.selected
     /\ thread_role = "Audio"
     /\ total_cores > TinySystemCores)
        => reg.cores = Elems(IF turbo_cores # <<>> THEN turbo_cores
                             ELSE performance_cores)

\* C20: a Background or Unknown registration selects efficiency_cores when
\* that list is non-empty and performance_cores when it is empty; an empty
\* efficiency list never leaves it without cores.
BackgroundSelectsEfficiencyOrPerformance ==
    (/\ reg.kind = "register"
     /\ reg.initialized
     /\ reg.selected
     /\ thread_role \in {"Background", "Unknown"})
        => reg.cores = Elems(IF efficiency_cores # <<>> THEN efficiency_cores
                             ELSE performance_cores)

\* C21: after detect_cores() on 24 or more cores the performance list is
\* 0..15 and the efficiency list is 16..total_cores-1.
LargeHostSixteenPerformance ==
    total_cores >= 24 =>
        /\ performance_cores = CoreRange(0, 16)
        /\ efficiency_cores = CoreRange(16, total_cores)

\* C22: after detect_cores() on 12 to 15 cores the performance list is the
\* first ceil(2/3 * total_cores) cores and the efficiency list the rest.
MidHostTwoThirdsRoundedUp ==
    (total_cores >= 12 /\ total_cores <= 15) =>
        LET p == (2 * total_cores + 2) \div 3
        IN  /\ performance_cores = CoreRange(0, p)
            /\ efficiency_cores = CoreRange(p, total_cores)

\* C23: after detect_cores() turbo_cores (the priority cores) is the first
\* min(6, |performance_cores|) performance cores; 6 of them on 24 cores.
TurboIsFirstSixPerformance ==
    total_cores >= 1 =>
        turbo_cores = SubSeq(performance_cores, 1, Min(6, Len(performance_cores)))

\* C24: under every mode but Disabled the priority step of an Audio
\* registration requests realtime scheduling (SCHED_FIFO; on windows a thread
\* priority above normal), at a level no lower than the level Audio gets
\* under any less aggressive mode, in the order Balanced, Aggressive, Ultra.
AudioRealtimeLevelFollowsMode ==
    [][(RegisterPriority /\ thread_role = "Audio" /\ PriorityMode # "Disabled")
       => LET rank == [m \in Modes |->
                          CASE m = "Disabled"   -> 0
                            [] m = "Balanced"   -> 1
                            [] m = "Aggressive" -> 2
                            [] m = "Ultra"      -> 3]
          IN  /\ \/ reg'.priority.policy = "SCHED_FIFO"
                 \/ reg'.priority.policy = "THREAD_PRIORITY" /\ reg'.priority.level > 0
              /\ \A m \in Modes :
                     (rank[m] >= 1 /\ rank[m] <= rank[PriorityMode])
                         => SelectPriority("Audio", m).level <= reg'.priority.level]_vars

\* C25: the priority step of a registration under mode Disabled makes no
\* scheduling request, whatever the role, and leaves the thread's scheduling
\* as it was.
DisabledModeRequestsNoPriority ==
    [][(RegisterPriority /\ PriorityMode = "Disabled")
       => (reg'.priority = NoPriority /\ thread_priority' = thread_priority)]_vars

\* C25 happens: an Audio registration under mode Disabled went through the
\* affinity call and the priority step, and no scheduling request was made.
DisabledModeRequestsNoPriorityWitness ==
    /\ pc = "idle"
    /\ reg.kind = "register"
    /\ reg.enabled
    /\ reg.mode = "Disabled"
    /\ turbo_mode = "Disabled"
    /\ thread_role = "Audio"
    /\ reg.affinity = "ok"
    /\ reg.priority = NoPriority

\* C26: the priority step of an Input registration makes a scheduling
\* request exactly when the mode is Aggressive or Ultra.
InputElevatedUnderAggressiveAndUltra ==
    [][(RegisterPriority /\ thread_role = "Input")
       => ((reg'.priority # NoPriority)
               <=> (PriorityMode \in {"Aggressive", "Ultra"}))]_vars

\* C27: whatever values set_vita_affinity_multiplier and set_turbo_mode were
\* called with, the stored multiplier lies in a bounded range: it is never
\* zero or negative and never the very large input (100.0, here 1000 tenths)
\* as given.
MultiplierClamped ==
    multiplier > 0 /\ multiplier < 1000

\* C28: in Ultra mode with the scheduler enabled, a call of
\* apply_vita_thread_optimization with a mask of k set bits hands the
\* affinity syscall the first min(|ultra_cores|, max(1, floor(k * multiplier)))
\* entries of ultra_cores; in every other mode the call leaves the thread's
\* affinity alone.
VitaExpansionIsUltraPrefix ==
    [][\A vp \in VitaPriorities, mask \in VitaAffinityMasks :
          ApplyVitaThreadOptimization(vp, mask) =>
              /\ (enabled /\ turbo_mode = "Ultra" /\ reg'.affinity # "none")
                     => reg'.cores =
                            Prefix(ultra_cores,
                                   Min(Len(ultra_cores),
                                       Max(1, ScaledCount(PopCount(mask), multiplier))))
              /\ (enabled /\ turbo_mode = "Ultra" /\ ultra_cores # <<>>)
                     => reg'.affinity # "none"
              /\ turbo_mode # "Ultra" => thread_affinity' = thread_affinity]_vars

\* C29: a failed affinity syscall inside a registration changes neither the
\* scheduler state (flags, mode, multiplier, core lists) nor the thread's
\* affinity, the registration goes on to the priority step, and it returns
\* having made the scheduling request of its role under the mode.
FailedAffinityIsNotFatal ==
    /\ [][(RegisterAffinity /\ reg'.affinity = "failed")
          => (/\ UNCHANGED <<initialized, sched, topology, thread_affinity>>
              /\ pc' = "priority")]_vars
    /\ []((pc = "idle" /\ reg.kind = "register" /\ reg.affinity = "failed")
          => reg.priority = SelectPriority(thread_role, reg.mode))

\* C29 happens: a registration whose affinity syscall failed has returned
\* with its scheduling request made and granted, the affinity still the
\* thread's initial one.
FailedAffinityIsNotFatalWitness ==
    /\ pc = "idle"
    /\ reg.kind = "register"
    /\ reg.affinity = "failed"
    /\ reg.priority # NoPriority
    /\ reg.priority_ok
    /\ thread_priority = reg.priority
    /\ thread_affinity = FirstCores(host_cores)

\* C30: once detect_cores() has run on a host of at least one core, every
\* core id in the performance, efficiency, turbo and ultra lists, and every
\* core id a registration hands to the affinity syscall, is one of
\* 0 .. total_cores-1.
EveryCoreIdExists ==
    total_cores >= 1 =>
        /\ Elems(performance_cores) \subseteq FirstCores(total_cores)
        /\ Elems(efficiency_cores) \subseteq FirstCores(total_cores)
        /\ Elems(turbo_cores) \subseteq FirstCores(total_cores)
        /\ Elems(ultra_cores) \subseteq FirstCores(total_cores)
        /\ (reg.kind = "register" /\ reg.affinity # "none")
               => reg.cores \subseteq FirstCores(total_cores)

====
